---- MODULE Spec2Model ----
(***************************************************************************)
(* Model of the LegiTrack data-access layer (services/camara.py) and of    *)
(* its normalisation helpers (utils/transforms.py).                        *)
(*                                                                         *)
(* Every function of the two files is a deterministic, single-call         *)
(* computation over its arguments and over what the upstream HTTP server   *)
(* answers.  A behaviour of the model is therefore one call: the initial   *)
(* state fixes the call (op, arg) and the environment (server, today),     *)
(* and the action named after the Python function runs it to completion,   *)
(* leaving its outcome in ret and the number of GETs issued in http.       *)
(***************************************************************************)
EXTENDS Integers, Sequences, FiniteSets, TLC

VARIABLES pc, op, arg, server, today, ret, http

vars == <<pc, op, arg, server, today, ret, http>>

(***************************************************************************)
(* Bounds of the explored input space.                                     *)
(***************************************************************************)
MaxItems == 1      \* length of the arrays inside an archive payload
MaxArchive == 1    \* number of records of an archive searched by topic
MaxSorted == 3     \* number of records of an archive whose order is checked
MaxRows == 2       \* number of records handed to df_proposicoes
MaxNum == 1        \* largest integer held by an id / numero / ano field
MaxAutores == 2    \* number of entries of an authors payload

(***************************************************************************)
(* Python values.  JSON null / None, integers, strings (sequences of       *)
(* one-character strings), lists and dicts.  A dict is a function from     *)
(* its keys to values.                                                     *)
(***************************************************************************)
None == [t |-> "none"]
Num(n) == [t |-> "int", n |-> n]
Str(s) == [t |-> "str", s |-> s]
List(l) == [t |-> "list", l |-> l]
Dict(d) == [t |-> "dict", d |-> d]
EmptyDict == Dict([k \in {} |-> None])

\* bool(v)
Truthy(v) ==
    CASE v.t = "none" -> FALSE
      [] v.t = "int" -> v.n # 0
      [] v.t = "str" -> Len(v.s) > 0
      [] v.t = "list" -> Len(v.l) > 0
      [] v.t = "dict" -> DOMAIN v.d # {}
      [] OTHER -> TRUE

\* a or b
Or(a, b) == IF Truthy(a) THEN a ELSE b

\* d.get(k, default) on a dict d
GetDefault(d, k, default) == IF k \in DOMAIN d.d THEN d.d[k] ELSE default

\* d.get(k)
Get(d, k) == GetDefault(d, k, None)

(***************************************************************************)
(* Strings.                                                                *)
(***************************************************************************)
UpperLetters ==
    <<"A","B","C","D","E","F","G","H","I","J","K","L","M",
      "N","O","P","Q","R","S","T","U","V","W","X","Y","Z">>
LowerLetters ==
    <<"a","b","c","d","e","f","g","h","i","j","k","l","m",
      "n","o","p","q","r","s","t","u","v","w","x","y","z">>
DigitChars == <<"0","1","2","3","4","5","6","7","8","9">>
Whitespace == {" "}

IndexIn(c, letters) == CHOOSE i \in 1..Len(letters) : letters[i] = c
IsIn(c, letters) == \E i \in 1..Len(letters) : letters[i] = c

LowerChar(c) == IF IsIn(c, UpperLetters) THEN LowerLetters[IndexIn(c, UpperLetters)] ELSE c
UpperChar(c) == IF IsIn(c, LowerLetters) THEN UpperLetters[IndexIn(c, LowerLetters)] ELSE c

\* s.lower(), s.upper()
Lower(s) == [i \in 1..Len(s) |-> LowerChar(s[i])]
Upper(s) == [i \in 1..Len(s) |-> UpperChar(s[i])]

\* s.strip()
RECURSIVE LStrip(_)
LStrip(s) == IF s # <<>> /\ Head(s) \in Whitespace THEN LStrip(Tail(s)) ELSE s
RECURSIVE RStrip(_)
RStrip(s) ==
    IF s # <<>> /\ s[Len(s)] \in Whitespace THEN RStrip(SubSeq(s, 1, Len(s) - 1)) ELSE s
Strip(s) == RStrip(LStrip(s))

\* needle in hay
Contains(needle, hay) ==
    \E i \in 0..(Len(hay) - Len(needle)) : SubSeq(hay, i + 1, i + Len(needle)) = needle

\* " ".join(parts)
RECURSIVE JoinSpace(_)
JoinSpace(parts) ==
    IF parts = <<>> THEN <<>>
    ELSE IF Len(parts) = 1 THEN parts[1]
    ELSE parts[1] \o <<" ">> \o JoinSpace(Tail(parts))

\* str(n) for n >= 0
RECURSIVE NatToStr(_)
NatToStr(n) ==
    IF n < 10 THEN <<DigitChars[n + 1]>>
    ELSE NatToStr(n \div 10) \o <<DigitChars[(n % 10) + 1]>>

\* str(v)
PyStr(v) ==
    CASE v.t = "str" -> v.s
      [] v.t = "int" -> NatToStr(v.n)
      [] v.t = "none" -> <<"N","o","n","e">>

\* the value of a string of decimal digits
RECURSIVE DigitsToNat(_)
DigitsToNat(s) ==
    IF s = <<>> THEN 0
    ELSE DigitsToNat(SubSeq(s, 1, Len(s) - 1)) * 10 + (IndexIn(s[Len(s)], DigitChars) - 1)

IsDigits(s) == s # <<>> /\ \A i \in 1..Len(s) : IsIn(s[i], DigitChars)

\* int(v): the integer, or the exception it raises
PyInt(v) ==
    CASE v.t = "int" -> [ok |-> TRUE, n |-> v.n, exc |-> ""]
      [] v.t = "str" ->
            IF IsDigits(Strip(v.s))
            THEN [ok |-> TRUE, n |-> DigitsToNat(Strip(v.s)), exc |-> ""]
            ELSE [ok |-> FALSE, n |-> 0, exc |-> "ValueError"]
      [] OTHER -> [ok |-> FALSE, n |-> 0, exc |-> "TypeError"]

(***************************************************************************)
(* Outcomes of a call.                                                     *)
(***************************************************************************)
Return(v) == [kind |-> "return", val |-> v, exc |-> ""]
Raise(e) == [kind |-> "raise", val |-> None, exc |-> e]
NoResult == [kind |-> "none", val |-> None, exc |-> ""]

(***************************************************************************)
(* services/camara.py                                                      *)
(*                                                                         *)
(* The upstream server is the record server: status is what the single     *)
(* GET meets ("ok", a non-success HTTP status, a transport failure, or a   *)
(* body that is not JSON), body the decoded JSON document when status is   *)
(* "ok".  requests raises a RequestException for each status but "ok"      *)
(* (raise_for_status for the HTTP status, requests.JSONDecodeError for     *)
(* the body).                                                              *)
(***************************************************************************)
Statuses == {"ok", "http_error", "transport_fail", "bad_json"}

\* requests.get(...); r.raise_for_status(); r.json()
RequestRaises(srv) == srv.status # "ok"

\* the first of the alternate keys that holds a list, as a sequence of 0 or 1 keys
RECURSIVE FirstListKey(_, _)
FirstListKey(data, keys) ==
    IF keys = <<>> THEN <<>>
    ELSE IF Head(keys) \in DOMAIN data.d /\ data.d[Head(keys)].t = "list"
         THEN <<Head(keys)>>
         ELSE FirstListKey(data, Tail(keys))

\* the alternate keys probed in another order
AlternateKeysReordered == <<"itens", "lista", "proposicoes">>

AlternateKeys == <<"proposicoes", "lista", "itens">>

\* the shape detection of _get_arquivo_proposicoes_ano
ArquivoRegistros(data) ==
    IF data.t = "dict"
    THEN IF "dados" \in DOMAIN data.d /\ data.d["dados"].t = "list"
         THEN data.d["dados"].l
         ELSE IF FirstListKey(data, AlternateKeys) # <<>>
              THEN data.d[FirstListKey(data, AlternateKeys)[1]].l
              ELSE <<data>>
    ELSE IF data.t = "list" THEN data.l
    ELSE <<>>

ArquivoProposicoesAno(srv) ==
    IF RequestRaises(srv) THEN Raise("CamaraAPIError")
    ELSE Return(List(ArquivoRegistros(srv.body)))

\* a failed request answered with an empty envelope instead of the error
GetApiSwallows(srv) ==
    IF RequestRaises(srv) THEN Return(EmptyDict) ELSE Return(srv.body)

GetApi(srv) ==
    IF RequestRaises(srv) THEN Raise("CamaraAPIError") ELSE Return(srv.body)

\* termo.lower().strip()
TermoLower(termo) == Strip(Lower(termo))

\* [t.upper() for t in (tipos or [])]
TiposUpper(tipos) ==
    LET l == Or(tipos, List(<<>>)).l IN [i \in 1..Len(l) |-> Upper(l[i].s)]

InSeq(x, s) == \E i \in 1..Len(s) : s[i] = x

\* the text a term is searched in
TextoBusca(prop) ==
    LET ementa == PyStr(Or(GetDefault(prop, "ementa", Str(<<>>)), Str(<<>>)))
        keywords == PyStr(Or(GetDefault(prop, "keywords", Str(<<>>)), Str(<<>>)))
        resumo == PyStr(Or(GetDefault(prop, "ementaDetalhada", Str(<<>>)), Str(<<>>)))
    IN Lower(JoinSpace(<<ementa, keywords, resumo>>))

\* str(prop.get("siglaTipo", "")).upper()
SiglaTipoUpper(prop) == Upper(PyStr(GetDefault(prop, "siglaTipo", Str(<<>>))))

\* Mantem with the two tests joined by "or" instead of "and"
MantemQualquer(prop, tipos, termo_lower) ==
    \/ (tipos # <<>> /\ InSeq(SiglaTipoUpper(prop), tipos))
    \/ Contains(termo_lower, TextoBusca(prop))

\* one turn of the filter loop: TRUE when prop is appended to filtradas
Mantem(prop, tipos, termo_lower) ==
    IF tipos # <<>> /\ ~InSeq(SiglaTipoUpper(prop), tipos)
    THEN FALSE
    ELSE Contains(termo_lower, TextoBusca(prop))

Filtrar(registros, tipos, termo_lower) ==
    LET Test(prop) == Mantem(prop, tipos, termo_lower) IN SelectSeq(registros, Test)

\* the sort key (int(p.get("ano", 0)), int(p.get("numero", 0))) and whether it raises
ChaveAno(p) == PyInt(GetDefault(p, "ano", Num(0)))
ChaveNumero(p) == PyInt(GetDefault(p, "numero", Num(0)))
ChaveRaises(p) == ~ChaveAno(p).ok \/ ~ChaveNumero(p).ok
Chave(p) == <<ChaveAno(p).n, ChaveNumero(p).n>>

\* a strict comparison: records with equal keys change places
ChaveGT(k1, k2) == k1[1] > k2[1] \/ (k1[1] = k2[1] /\ k1[2] > k2[2])

\* k1 >= k2 on (year, number) tuples
ChaveGE(k1, k2) == k1[1] > k2[1] \/ (k1[1] = k2[1] /\ k1[2] >= k2[2])

\* list.sort(key=..., reverse=True) is stable: insert p after every element whose
\* key is >= the key of p
RECURSIVE InsereDesc(_, _)
InsereDesc(sorted, p) ==
    IF sorted = <<>> THEN <<p>>
    ELSE IF ChaveGE(Chave(Head(sorted)), Chave(p))
         THEN <<Head(sorted)>> \o InsereDesc(Tail(sorted), p)
         ELSE <<p>> \o sorted

RECURSIVE OrdenaDesc(_)
OrdenaDesc(l) ==
    IF l = <<>> THEN <<>>
    ELSE InsereDesc(OrdenaDesc(SubSeq(l, 1, Len(l) - 1)), l[Len(l)])

\* try: filtradas.sort(...) except Exception: pass
Ordenar(filtradas) ==
    IF \E i \in 1..Len(filtradas) : ChaveRaises(filtradas[i])
    THEN filtradas
    ELSE OrdenaDesc(filtradas)

\* the emptiness test made on the stripped term
TermoVazioAposStrip(termo) == ~Truthy(termo) \/ Strip(termo.s) = <<>>

\* not termo
TermoVazio(termo) == ~Truthy(termo)

\* the outcome of buscar_proposicoes_por_tema and the number of GETs it issued;
\* prop.get raises AttributeError on a record that is no dict
BuscarPorTema(a, srv) ==
    IF TermoVazio(a.termo)
    THEN [ret |-> Raise("ValueError"), http |-> 0]
    ELSE LET registros == ArquivoProposicoesAno(srv)
         IN IF registros.kind = "raise"
            THEN [ret |-> registros, http |-> 1]
            ELSE IF \E i \in 1..Len(registros.val.l) : registros.val.l[i].t # "dict"
                 THEN [ret |-> Raise("AttributeError"), http |-> 1]
                 ELSE [ret |-> Return(List(Ordenar(
                                   Filtrar(registros.val.l, TiposUpper(a.tipos),
                                           TermoLower(a.termo.s))))),
                       http |-> 1]

\* data.get("dados", default) on the answer of _get_api
UnwrapDados(srv, default) ==
    LET data == GetApi(srv)
    IN IF data.kind = "raise" THEN data
       ELSE IF data.val.t # "dict" THEN Raise("AttributeError")
       ELSE Return(GetDefault(data.val, "dados", default))

DetalhesProposicao(srv) == [ret |-> UnwrapDados(srv, EmptyDict), http |-> 1]

Tramitacoes(srv) == [ret |-> UnwrapDados(srv, List(<<>>)), http |-> 1]

AutoresPorUri(a, srv) ==
    IF ~Truthy(a.uri)
    THEN [ret |-> Return(List(<<>>)), http |-> 0]
    ELSE IF RequestRaises(srv)
         THEN [ret |-> Return(List(<<>>)), http |-> 1]
         ELSE IF srv.body.t = "dict"
              THEN [ret |-> Return(GetDefault(srv.body, "dados", List(<<>>))), http |-> 1]
              ELSE IF srv.body.t = "list"
                   THEN [ret |-> Return(srv.body), http |-> 1]
                   ELSE [ret |-> Return(List(<<>>)), http |-> 1]

(***************************************************************************)
(* utils/transforms.py                                                     *)
(*                                                                         *)
(* A calendar date is a record [y, m, d].  pandas.Timestamp and            *)
(* datetime.datetime carry a date and an hour; datetime.date is the date   *)
(* alone; pandas.NaT is its own value.                                     *)
(***************************************************************************)
NaT == [t |-> "nat"]
Timestamp(date, hour) == [t |-> "timestamp", date |-> date, hour |-> hour]
DateTime(date, hour) == [t |-> "datetime", date |-> date, hour |-> hour]
PlainDate(date) == [t |-> "date", date |-> date]

IsLeap(y) == (y % 4 = 0 /\ y % 100 # 0) \/ y % 400 = 0

DaysInMonth(y, m) ==
    IF m = 2 THEN (IF IsLeap(y) THEN 29 ELSE 28)
    ELSE IF m \in {4, 6, 9, 11} THEN 30 ELSE 31

ValidDate(y, m, d) == y >= 1 /\ m \in 1..12 /\ d >= 1 /\ d <= DaysInMonth(y, m)

RECURSIVE DaysBeforeMonth(_, _)
DaysBeforeMonth(y, m) ==
    IF m = 1 THEN 0 ELSE DaysBeforeMonth(y, m - 1) + DaysInMonth(y, m - 1)

\* date.toordinal()
Ordinal(date) ==
    LET y1 == date.y - 1
    IN y1 * 365 + (y1 \div 4) - (y1 \div 100) + (y1 \div 400)
       + DaysBeforeMonth(date.y, date.m) + date.d

\* dateutil's parser on the strings of the model: YYYY-MM-DD naming a calendar
\* date parses to that date at midnight, anything else is a parse error
DateShape(s) ==
    /\ Len(s) = 10
    /\ s[5] = "-" /\ s[8] = "-"
    /\ IsDigits(SubSeq(s, 1, 4)) /\ IsDigits(SubSeq(s, 6, 7)) /\ IsDigits(SubSeq(s, 9, 10))

DateFields(s) ==
    [y |-> DigitsToNat(SubSeq(s, 1, 4)),
     m |-> DigitsToNat(SubSeq(s, 6, 7)),
     d |-> DigitsToNat(SubSeq(s, 9, 10))]

DateutilParses(s) ==
    DateShape(s) /\ ValidDate(DateFields(s).y, DateFields(s).m, DateFields(s).d)

\* value in (None, "", pd.NaT)
IsBlank(value) == value.t \in {"none", "nat"} \/ (value.t = "str" /\ value.s = <<>>)

parse_date(value) ==
    IF IsBlank(value) THEN None
    ELSE IF value.t = "str" /\ DateutilParses(value.s)
         THEN Timestamp(DateFields(value.s), 0)
         ELSE None

DiasDesde(dt, hoje) ==
    IF IsBlank(dt) THEN Return(None)
    ELSE IF dt.t = "timestamp" THEN Return(Num(Ordinal(hoje) - Ordinal(dt.date)))
    ELSE IF dt.t = "datetime" THEN Return(Num(Ordinal(hoje) - Ordinal(dt.date)))
    ELSE IF dt.t = "date" THEN Raise("UnboundLocalError")
    ELSE IF parse_date(dt) = None THEN Return(None)
    ELSE Return(Num(Ordinal(hoje) - Ordinal(parse_date(dt).date)))

\* _safe_get(d, k): the AttributeError of a status that is no dict is swallowed
_safe_get(d, k) ==
    IF d.t = "none" THEN None
    ELSE IF d.t # "dict" THEN None
    ELSE Get(d, k)

\* the chain taking the first value that is not None, whatever its truth value
RECURSIVE FirstNotNoneOf(_, _)
FirstNotNoneOf(p, keys) ==
    IF Len(keys) = 1 THEN Get(p, keys[1])
    ELSE IF Get(p, keys[1]) # None THEN Get(p, keys[1])
    ELSE FirstNotNoneOf(p, Tail(keys))

\* the value of p.get(k1) or p.get(k2) or ... : the first truthy one, else the last
RECURSIVE FirstOf(_, _)
FirstOf(p, keys) ==
    IF Len(keys) = 1 THEN Get(p, keys[1])
    ELSE Or(Get(p, keys[1]), FirstOf(p, Tail(keys)))

RECURSIVE SafeFirstOf(_, _)
SafeFirstOf(status, keys) ==
    IF Len(keys) = 1 THEN _safe_get(status, keys[1])
    ELSE Or(_safe_get(status, keys[1]), SafeFirstOf(status, Tail(keys)))

IdKeys == <<"id", "idProposicao">>
SiglaKeys == <<"siglaTipo", "sigla_tipo">>
NumeroKeys == <<"numero", "numProposicao", "num">>
AnoKeys == <<"ano", "anoProposicao">>
StatusKeys == <<"statusProposicao", "ultimoStatus", "status_proposicao">>

IdProp(p) == FirstOf(p, IdKeys)
SiglaTipo(p) == FirstOf(p, SiglaKeys)
Numero(p) == FirstOf(p, NumeroKeys)
Ano(p) == FirstOf(p, AnoKeys)
Status(p) == Or(FirstOf(p, StatusKeys), EmptyDict)

LinkBase ==
    <<"h","t","t","p","s",":","/","/","w","w","w",".","c","a","m","a","r","a",".","l",
      "e","g",".","b","r","/","p","r","o","p","o","s","i","c","o","e","s","W","e","b",
      "/","f","i","c","h","a","d","e","t","r","a","m","i","t","a","c","a","o","?","i",
      "d","P","r","o","p","o","s","i","c","a","o","=">>

\* the link built for every identifier that is not None
LinkIfNotNone(id_prop) ==
    IF id_prop # None THEN Str(LinkBase \o PyStr(id_prop)) ELSE Str(<<>>)

Link(id_prop) == IF Truthy(id_prop) THEN Str(LinkBase \o PyStr(id_prop)) ELSE Str(<<>>)

Rotulo(sigla_tipo, numero, ano) ==
    IF Truthy(sigla_tipo) /\ Truthy(numero) /\ Truthy(ano)
    THEN Str(PyStr(sigla_tipo) \o <<" ">> \o PyStr(numero) \o <<"/">> \o PyStr(ano))
    ELSE None

Columns ==
    <<"id", "siglaTipo", "numero", "ano", "rotulo", "ementa", "situacao",
      "tramitacao_atual", "data_status", "link">>

\* the dict appended to linhas for the record p
Linha(p) ==
    LET status == Status(p)
    IN [id |-> IdProp(p),
        siglaTipo |-> SiglaTipo(p),
        numero |-> Numero(p),
        ano |-> Ano(p),
        rotulo |-> Rotulo(SiglaTipo(p), Numero(p), Ano(p)),
        ementa |-> Or(Or(Get(p, "ementa"), Str(<<>>)),
                      Or(Get(p, "ementaDetalhada"), Str(<<>>))),
        situacao |-> SafeFirstOf(status, <<"descricaoSituacao", "situacao",
                                           "descricaoTramitacao">>),
        tramitacao_atual |-> SafeFirstOf(status, <<"descricaoTramitacao", "apreciacao">>),
        data_status |-> parse_date(SafeFirstOf(status, <<"dataHora", "dataUltimoDespacho",
                                                         "data">>)),
        link |-> Link(IdProp(p))]

\* the records without an identifier left out of the table
LinhasComId(registros) ==
    LET comId == SelectSeq(registros, LAMBDA p : Truthy(IdProp(p)))
    IN [i \in 1..Len(comId) |-> Linha(comId[i])]

Linhas(registros) == [i \in 1..Len(registros) |-> Linha(registros[i])]

\* pd.DataFrame(columns=[...]) and pd.DataFrame(linhas): the columns of the frame
\* are the ones named, respectively the keys of the row dicts
KeysOf(linha) == SelectSeq(Columns, LAMBDA c : c \in DOMAIN linha)

DataFrame(columns, linhas) == [t |-> "frame", columns |-> columns, rows |-> linhas]

DfProposicoes(registros) ==
    LET linhas == Linhas(registros)
    IN IF linhas = <<>> THEN DataFrame(Columns, <<>>)
       ELSE DataFrame(KeysOf(linhas[1]), linhas)

Deputado == <<"d","e","p","u","t","a","d","o">>

\* the type compared without lower-casing it
IsDeputadoCaseSensitive(a) == Contains(Deputado, Or(Get(a, "tipo"), Str(<<>>)).s)

\* "deputado" in (a.get("tipo") or "").lower()
IsDeputado(a) == Contains(Deputado, Lower(Or(Get(a, "tipo"), Str(<<>>)).s))

\* the entry the for loop leaves in deputado, None when it never breaks
RECURSIVE PrimeiroDeputado(_)
PrimeiroDeputado(autores) ==
    IF autores = <<>> THEN None
    ELSE IF IsDeputado(Head(autores)) THEN Head(autores)
    ELSE PrimeiroDeputado(Tail(autores))

\* deputado or autores_payload[0]
AutorEscolhido(autores) == Or(PrimeiroDeputado(autores), autores[1])

NomeKeys == <<"nome", "nomeAutor", "nomeAutorPrimeiroSignatario">>

NomeDe(autor) == FirstOf(autor, NomeKeys)

ExtrairAutorPrincipal(autores_payload) ==
    IF ~Truthy(autores_payload) THEN None
    ELSE NomeDe(AutorEscolhido(autores_payload.l))

(***************************************************************************)
(* Inputs.  A dict with optional keys is drawn as a record of options:     *)
(* <<>> for a key that is absent, <<v>> for a key that holds v.            *)
(***************************************************************************)
DictOf(r) == Dict([k \in {j \in DOMAIN r : r[j] # <<>>} |-> r[k][1]])

Opt(values) == {<<>>} \cup {<<v>> : v \in values}

SeqsUpTo(S, n) == UNION {[1..k -> S] : k \in 0..n}

Failures == Statuses \ {"ok"}

ServerOk(body) == [status |-> "ok", body |-> body]
ServerFails == {[status |-> st, body |-> None] : st \in Failures}
NoServer == ServerOk(None)

Date(y, m, d) == [y |-> y, m |-> m, d |-> d]
Day0 == Date(2024, 3, 1)

NoArg == [none |-> TRUE]

\* ---- archive payloads of every shape
ItemLists == {List(l) : l \in SeqsUpTo({Num(1), Num(2)}, MaxItems)}
FieldValues == ItemLists \cup {None, Str(<<"x">>)}
EnvelopeDicts ==
    {DictOf(r) : r \in [dados : Opt(FieldValues), proposicoes : Opt(FieldValues),
                        lista : Opt(FieldValues), itens : Opt(FieldValues),
                        id : Opt({Num(1)})]}
ArchivePayloads == EnvelopeDicts \cup ItemLists \cup {None, Str(<<"x">>), Num(3)}

\* ---- archives searched by topic
SearchRecords ==
    {DictOf(r) : r \in [siglaTipo : Opt({None, Str(<<"p","l">>)}),
                        ementa : Opt({None, Str(<<"A","b">>)}),
                        keywords : Opt({Str(<<"b">>)}),
                        ementaDetalhada : Opt({Str(<<"a">>)})]}
SearchArchives == {List(l) : l \in SeqsUpTo(SearchRecords, MaxArchive)}
Termos ==
    {None, Str(<<>>), Str(<<" ">>), Str(<<"a">>), Str(<<" ","a">>), Str(<<"B"," ">>),
     Str(<<"b"," ","a">>), Str(<<"b"," "," ","a">>), Str(<<"A","B"," ","b"," ","A">>),
     Str(<<"b","a">>), Str(<<"c">>)}
TiposFiltros ==
    {None, List(<<>>), List(<<Str(<<"P","L">>)>>),
     List(<<Str(<<"p","e","c">>), Str(<<"n","o","n","e">>)>>)}

\* ---- archives whose order is checked: every record but one matches the term "a"
SortedRecords ==
    {DictOf(r) : r \in [ementa : {<<Str(<<"a">>)>>},
                        ano : Opt({Num(1), Str(<<"1">>), Num(2), Str(<<"x">>)}),
                        numero : Opt({Num(1), None})]}
    \cup {DictOf([ementa |-> <<Str(<<"b">>)>>, ano |-> <<Str(<<"x">>)>>,
                   numero |-> <<Num(1)>>])}
SortedArchives == {List(l) : l \in SeqsUpTo(SortedRecords, MaxSorted)}

\* ---- answers of the REST end points
Registro1 == DictOf([id |-> <<Num(1)>>, ementa |-> <<Str(<<"a">>)>>])
RestBodies ==
    {Dict([dados |-> List(<<Registro1>>)]), Dict([dados |-> List(<<>>)]),
     Dict([dados |-> Registro1]), Dict([links |-> List(<<>>)]), EmptyDict,
     List(<<Registro1>>), List(<<>>), Str(<<"x">>), None, Num(3)}
Servers == {ServerOk(b) : b \in RestBodies} \cup ServerFails
Uris == {None, Str(<<>>), Str(<<"u">>)}

(***************************************************************************)
(* The state machine: one call, run to completion by the action named      *)
(* after the function called.                                              *)
(***************************************************************************)
Start(o, args, servers) ==
    /\ pc = "call"
    /\ op = o
    /\ arg \in args
    /\ server \in servers
    /\ today = Day0
    /\ ret = NoResult
    /\ http = 0

Finish(r, gets) ==
    /\ pc' = "done"
    /\ ret' = r
    /\ http' = gets
    /\ UNCHANGED <<op, arg, server, today>>

_get_arquivo_proposicoes_ano ==
    /\ pc = "call"
    /\ op = "_get_arquivo_proposicoes_ano"
    /\ Finish(ArquivoProposicoesAno(server), 1)

buscar_proposicoes_por_tema ==
    /\ pc = "call"
    /\ op = "buscar_proposicoes_por_tema"
    /\ Finish(BuscarPorTema(arg, server).ret, BuscarPorTema(arg, server).http)

detalhes_proposicao ==
    /\ pc = "call"
    /\ op = "detalhes_proposicao"
    /\ Finish(DetalhesProposicao(server).ret, DetalhesProposicao(server).http)

tramitacoes ==
    /\ pc = "call"
    /\ op = "tramitacoes"
    /\ Finish(Tramitacoes(server).ret, Tramitacoes(server).http)

autores_por_uri ==
    /\ pc = "call"
    /\ op = "autores_por_uri"
    /\ Finish(AutoresPorUri(arg, server).ret, AutoresPorUri(arg, server).http)

\* ---- the archive accessor on every payload shape and every failure
InitArquivo ==
    Start("_get_arquivo_proposicoes_ano", {[ano |-> Num(2023)]},
          {ServerOk(b) : b \in ArchivePayloads} \cup ServerFails)
NextArquivo == _get_arquivo_proposicoes_ano
SpecArquivo == InitArquivo /\ [][NextArquivo]_vars

\* ---- the search by topic: filter
BuscaArgs == [termo : Termos, ano : {Num(2023)}, tipos : TiposFiltros]
InitBusca ==
    Start("buscar_proposicoes_por_tema", BuscaArgs,
          {ServerOk(b) : b \in SearchArchives} \cup ServerFails)
NextBusca == buscar_proposicoes_por_tema
SpecBusca == InitBusca /\ [][NextBusca]_vars

\* ---- the search by topic: order of the result
OrdemArgs == [termo : {Str(<<"a">>)}, ano : {Num(2023)}, tipos : {None}]
InitOrdem ==
    Start("buscar_proposicoes_por_tema", OrdemArgs, {ServerOk(b) : b \in SortedArchives})
NextOrdem == buscar_proposicoes_por_tema
SpecOrdem == InitOrdem /\ [][NextOrdem]_vars

\* ---- every fetch path against every answer of the server
FetchBuscaArgs == [termo : {Str(<<"a">>), Str(<<>>)}, ano : {Num(2023)}, tipos : {None}]
InitFetch ==
    \/ Start("buscar_proposicoes_por_tema", FetchBuscaArgs, Servers)
    \/ Start("detalhes_proposicao", {[id_prop |-> Num(1)]}, Servers)
    \/ Start("tramitacoes", {[id_prop |-> Num(1)]}, Servers)
    \/ Start("autores_por_uri", [uri : Uris], Servers)
NextFetch ==
    \/ buscar_proposicoes_por_tema
    \/ detalhes_proposicao
    \/ tramitacoes
    \/ autores_por_uri
SpecFetch == InitFetch /\ [][NextFetch]_vars

(***************************************************************************)
(* Inputs and calls of utils/transforms.py                                 *)
(***************************************************************************)
\* YYYY-MM-DD
RECURSIVE Padded(_, _)
Padded(n, width) ==
    IF width = 0 THEN <<>> ELSE Padded(n \div 10, width - 1) \o <<DigitChars[(n % 10) + 1]>>

DateText(date) ==
    Padded(date.y, 4) \o <<"-">> \o Padded(date.m, 2) \o <<"-">> \o Padded(date.d, 2)

\* ---- status containers
StatusCheio ==
    DictOf([descricaoSituacao |-> <<Str(<<"S">>)>>,
            descricaoTramitacao |-> <<Str(<<"T">>)>>,
            dataHora |-> <<Str(DateText(Date(2024, 2, 29)))>>])
StatusParcial ==
    DictOf([situacao |-> <<Str(<<>>)>>,
            descricaoTramitacao |-> <<None>>,
            apreciacao |-> <<Str(<<"P">>)>>,
            dataUltimoDespacho |-> <<Str(<<>>)>>,
            data |-> <<Str(DateText(Date(2023, 2, 29)))>>])

\* ---- records whose identifying fields take every form
IntValues == {Num(n) : n \in 0..MaxNum}
FieldRecords ==
    {DictOf(r) : r \in [id : Opt({None} \cup IntValues),
                        idProposicao : Opt({Num(0), Num(MaxNum + 1)}),
                        siglaTipo : Opt({None, Str(<<>>), Str(<<"P","L">>)}),
                        sigla_tipo : Opt({Str(<<"P","E","C">>)}),
                        numero : Opt({None, Str(<<"7">>)} \cup IntValues),
                        numProposicao : Opt({Num(MaxNum + 2)}),
                        num : Opt({Num(0), Num(MaxNum + 3)}),
                        ano : Opt(IntValues),
                        anoProposicao : Opt({None, Num(MaxNum + 2023)}),
                        statusProposicao : Opt({StatusCheio})]}

\* ---- tables of several records
RowRecords ==
    {DictOf(r) : r \in [id : Opt({Num(5)}),
                        siglaTipo : Opt({Str(<<"P","L">>)}),
                        num : Opt({Num(3)}),
                        ano : {<<Num(2020)>>},
                        ementa : Opt({Str(<<"e">>)})]}
    \cup {DictOf(r) : r \in [idProposicao : {<<Num(7)>>},
                             ementa : Opt({None}),
                             ementaDetalhada : Opt({Str(<<"d">>)}),
                             statusProposicao : Opt({EmptyDict}),
                             ultimoStatus : Opt({Str(<<"x">>), StatusParcial}),
                             status_proposicao : Opt({StatusCheio})]}
    \cup {EmptyDict}
RowTables == {List(l) : l \in SeqsUpTo(RowRecords, MaxRows)}

\* ---- authors payloads
AutorEntries ==
    {DictOf(r) : r \in [tipo : Opt({None, Str(<<"C","o","m","i","s","s","a","o">>),
                                    Str(<<"e","x","-","D","E","P","U","T","A","D","O">>)}),
                        nome : Opt({Str(<<>>), Str(<<"X">>)}),
                        nomeAutor : Opt({Str(<<"Y">>)}),
                        nomeAutorPrimeiroSignatario : Opt({Str(<<>>), Str(<<"Z">>)})]}
AutoresPayloads == {None} \cup {List(l) : l \in SeqsUpTo(AutorEntries, MaxAutores)}

\* ---- what dias_desde is given
Dates ==
    {Date(y, m, d) : y \in {2023, 2024}, m \in {2, 3}, d \in {1, 28, 29}}
ValidDates == {date \in Dates : ValidDate(date.y, date.m, date.d)}
Hours == {0, 23}
DiasInputs ==
    {None, NaT, Str(<<>>), Str(<<"x">>)}
    \cup {Timestamp(date, h) : date \in ValidDates, h \in Hours}
    \cup {DateTime(date, h) : date \in ValidDates, h \in Hours}
    \cup {PlainDate(date) : date \in ValidDates}
    \cup {Str(DateText(date)) : date \in Dates}
Todays == {Date(2024, 3, 1), Date(2024, 2, 28)}

df_proposicoes ==
    /\ pc = "call"
    /\ op = "df_proposicoes"
    /\ Finish(Return(DfProposicoes(arg.registros.l)), 0)

extrair_autor_principal ==
    /\ pc = "call"
    /\ op = "extrair_autor_principal"
    /\ Finish(Return(ExtrairAutorPrincipal(arg.autores_payload)), 0)

dias_desde ==
    /\ pc = "call"
    /\ op = "dias_desde"
    /\ Finish(DiasDesde(arg.dt, today), 0)

\* ---- the normaliser on tables of up to MaxRows records
InitLinhas == Start("df_proposicoes", [registros : RowTables], {NoServer})
NextLinhas == df_proposicoes
SpecLinhas == InitLinhas /\ [][NextLinhas]_vars

\* ---- the normaliser on one record, its identifying fields in every form
InitCampos ==
    Start("df_proposicoes", {[registros |-> List(<<p>>)] : p \in FieldRecords}, {NoServer})
NextCampos == df_proposicoes
SpecCampos == InitCampos /\ [][NextCampos]_vars

\* ---- the author extractor
InitAutor == Start("extrair_autor_principal", [autores_payload : AutoresPayloads], {NoServer})
NextAutor == extrair_autor_principal
SpecAutor == InitAutor /\ [][NextAutor]_vars

\* ---- dias_desde on every kind of input, on two days
InitDias ==
    /\ pc = "call"
    /\ op = "dias_desde"
    /\ arg \in [dt : DiasInputs]
    /\ server = NoServer
    /\ today \in Todays
    /\ ret = NoResult
    /\ http = 0
NextDias == dias_desde
SpecDias == InitDias /\ [][NextDias]_vars

(***************************************************************************)
(* Properties of services/camara.py                                        *)
(***************************************************************************)
Elems(l) == {l[i] : i \in 1..Len(l)}

SearchDone == pc = "done" /\ op = "buscar_proposicoes_por_tema"

\* the search went as far as filtering: a usable term and an archive
Searched == SearchDone /\ arg.termo.t = "str" /\ arg.termo.s # <<>> /\ server.status = "ok"

\* the text of a field of a record, the empty string when it is absent or null
FieldText(prop, k) ==
    IF k \in DOMAIN prop.d /\ prop.d[k].t = "str" THEN prop.d[k].s ELSE <<>>

\* summary + " " + keywords + " " + detailed summary, lower-cased
SearchedText(prop) ==
    Lower(FieldText(prop, "ementa") \o <<" ">> \o FieldText(prop, "keywords")
          \o <<" ">> \o FieldText(prop, "ementaDetalhada"))

\* the type code of a record as text: str() of the value, "" when the key is absent
TypeCode(prop) ==
    IF "siglaTipo" \notin DOMAIN prop.d THEN <<>>
    ELSE IF prop.d["siglaTipo"].t = "str" THEN prop.d["siglaTipo"].s
    ELSE <<"N","o","n","e">>

FilterEntries == IF arg.tipos.t = "list" THEN arg.tipos.l ELSE <<>>

TypeMatches(prop) ==
    \/ FilterEntries = <<>>
    \/ \E i \in 1..Len(FilterEntries) : Upper(TypeCode(prop)) = Upper(FilterEntries[i].s)

\* the result holds exactly the records of the archive that satisfy Keep
KeepsExactly(Keep(_)) ==
    /\ ret.kind = "return"
    /\ Elems(ret.val.l) \subseteq Elems(server.body.l)
    /\ \A i \in 1..Len(server.body.l) :
          (server.body.l[i] \in Elems(ret.val.l)) <=> Keep(server.body.l[i])

\* C1 as stated: a record is kept iff its type passes the filter and the lower-cased
\* term, whitespace included, is a substring of the lower-cased searched text
C1_KeepIffTypeAndLoweredTerm ==
    Searched =>
        KeepsExactly(LAMBDA prop :
            TypeMatches(prop) /\ Contains(Lower(arg.termo.s), SearchedText(prop)))

\* what is left of a term once its leading and trailing blanks are dropped
Trimmed(s) ==
    LET first == CHOOSE i \in 1..(Len(s) + 1) :
                    /\ \A j \in 1..(i - 1) : s[j] = " "
                    /\ i = Len(s) + 1 \/ s[i] # " "
        last == CHOOSE i \in 0..Len(s) :
                    /\ \A j \in (i + 1)..Len(s) : s[j] = " "
                    /\ i = 0 \/ s[i] # " "
    IN IF first > last THEN <<>> ELSE SubSeq(s, first, last)

\* C1 (amended): a record is kept iff its type passes the filter and the lower-cased
\* term, stripped of leading and trailing whitespace, is a substring of the
\* lower-cased searched text
C1_KeepIffTypeAndTrimmedTerm ==
    Searched =>
        KeepsExactly(LAMBDA prop :
            TypeMatches(prop) /\ Contains(Trimmed(Lower(arg.termo.s)), SearchedText(prop)))

\* a term with a leading blank keeps a record whose text holds the term only
\* without that blank, under a type filter the record passes
C1_Witness ==
    /\ Searched
    /\ arg.termo.s = <<" ", "a">>
    /\ arg.tipos = List(<<Str(<<"P","L">>)>>)
    /\ Len(ret.val.l) = 1
    /\ ~Contains(<<" ", "a">>, SearchedText(ret.val.l[1]))

\* C3: an empty term fails with ValueError before any GET; a non-empty term never
\* fails with ValueError
C3_EmptyTermRejectedBeforeFetch ==
    SearchDone =>
        /\ arg.termo = Str(<<>>) => (ret = Raise("ValueError") /\ http = 0)
        /\ (arg.termo.t = "str" /\ arg.termo.s # <<>>) => ret.exc # "ValueError"

\* an empty term against a server that would have answered, and a blank term accepted
C3_Witness ==
    /\ SearchDone
    /\ arg.termo = Str(<<>>)
    /\ server.status = "ok"
    /\ server.body.l # <<>>
    /\ ret.exc = "ValueError"
    /\ http = 0

(***************************************************************************)
(* C2                                                                      *)
(***************************************************************************)
ArquivoDone == pc = "done" /\ op = "_get_arquivo_proposicoes_ano" /\ server.status = "ok"

HoldsList(data, k) == data.t = "dict" /\ k \in DOMAIN data.d /\ data.d[k].t = "list"

\* C2: the archive accessor returns the array under dados; else the array under the
\* first of proposicoes, lista, itens that holds one; else the object alone in a
\* sequence; a bare array as it is; an empty sequence for anything else
C2_ArchiveShapes ==
    ArquivoDone =>
        LET data == server.body
        IN /\ ret.kind = "return"
           /\ HoldsList(data, "dados") => ret.val = data.d["dados"]
           /\ (~HoldsList(data, "dados") /\ HoldsList(data, "proposicoes"))
                 => ret.val = data.d["proposicoes"]
           /\ (~HoldsList(data, "dados") /\ ~HoldsList(data, "proposicoes")
                 /\ HoldsList(data, "lista")) => ret.val = data.d["lista"]
           /\ (~HoldsList(data, "dados") /\ ~HoldsList(data, "proposicoes")
                 /\ ~HoldsList(data, "lista") /\ HoldsList(data, "itens"))
                 => ret.val = data.d["itens"]
           /\ (data.t = "dict" /\ \A k \in {"dados", "proposicoes", "lista", "itens"} :
                                     ~HoldsList(data, k)) => ret.val = List(<<data>>)
           /\ data.t = "list" => ret.val = data
           /\ data.t \notin {"dict", "list"} => ret.val = List(<<>>)

\* dados is present but no array, and both lista and itens hold different arrays
C2_Witness ==
    /\ ArquivoDone
    /\ server.body.t = "dict"
    /\ {"dados", "lista", "itens"} \subseteq DOMAIN server.body.d
    /\ "proposicoes" \notin DOMAIN server.body.d
    /\ server.body.d["dados"] = None
    /\ server.body.d["lista"] = List(<<Num(1)>>)
    /\ server.body.d["itens"] = List(<<Num(2)>>)
    /\ ret.val = List(<<Num(1)>>)

(***************************************************************************)
(* C4                                                                      *)
(***************************************************************************)
\* the records of the archive that hold the term "a", in archive order
KeptInOrder == SelectSeq(server.body.l, LAMBDA prop : FieldText(prop, "ementa") = <<"a">>)

IsNumeric(v) == v.t = "int" \/ (v.t = "str" /\ IsDigits(Trimmed(v.s)))

NumericValue(v) == IF v.t = "int" THEN v.n ELSE DigitsToNat(Trimmed(v.s))

\* a field coerced to an integer, 0 when it is absent or not numeric
Coerced(prop, k) ==
    IF k \in DOMAIN prop.d /\ IsNumeric(prop.d[k]) THEN NumericValue(prop.d[k]) ELSE 0

\* a field that int() accepts: absent (the default 0 is taken) or numeric
Coercible(prop, k) == k \notin DOMAIN prop.d \/ IsNumeric(prop.d[k])

KeyAbove(p, q) ==
    \/ Coerced(p, "ano") > Coerced(q, "ano")
    \/ Coerced(p, "ano") = Coerced(q, "ano") /\ Coerced(p, "numero") > Coerced(q, "numero")

KeyEqual(p, q) ==
    Coerced(p, "ano") = Coerced(q, "ano") /\ Coerced(p, "numero") = Coerced(q, "numero")

Bijections(n) == {f \in [1..n -> 1..n] : \A i, j \in 1..n : f[i] = f[j] => i = j}

\* out is kept reordered descending by key, records of equal key in their order in kept
StableDescending(kept, out) ==
    /\ Len(out) = Len(kept)
    /\ \E f \in Bijections(Len(kept)) :
          /\ \A i \in 1..Len(kept) : out[i] = kept[f[i]]
          /\ \A i, j \in 1..Len(kept) :
                i < j => \/ KeyAbove(kept[f[i]], kept[f[j]])
                         \/ KeyEqual(kept[f[i]], kept[f[j]]) /\ f[i] < f[j]

OrdemDone == SearchDone /\ server.status = "ok" /\ arg.termo = Str(<<"a">>)

\* C4 as stated: the result is the kept records in stable descending order of
\* (year, number), a field counting as 0 when absent or non-numeric
C4_SortedWithZeroForNonNumeric ==
    OrdemDone => (ret.kind = "return" /\ StableDescending(KeptInOrder, ret.val.l))

AllCoercible(kept) ==
    \A i \in 1..Len(kept) : Coercible(kept[i], "ano") /\ Coercible(kept[i], "numero")

\* C4 (amended): the call never fails because of the sort; when the year and number
\* of every kept record are absent or numeric the result is the kept records in
\* stable descending order of (year, number), absent counting as 0; otherwise the
\* result is the kept records in archive order
C4_SortedOrLeftInArchiveOrder ==
    OrdemDone =>
        /\ ret.kind = "return"
        /\ AllCoercible(KeptInOrder) => StableDescending(KeptInOrder, ret.val.l)
        /\ ~AllCoercible(KeptInOrder) => ret.val.l = KeptInOrder

\* three kept records, the archive not in order, two of them of equal key
C4_Witness ==
    /\ OrdemDone
    /\ Len(ret.val.l) = 3
    /\ AllCoercible(KeptInOrder)
    /\ ret.val.l # KeptInOrder
    /\ \E i, j \in 1..3 : i < j /\ ret.val.l[i] # ret.val.l[j]
                          /\ KeyEqual(ret.val.l[i], ret.val.l[j])

(***************************************************************************)
(* C8                                                                      *)
(***************************************************************************)
RequestFailed == pc = "done" /\ server.status \in {"transport_fail", "http_error"}

\* C8: a transport failure or non-success status met by buscar_proposicoes_por_tema,
\* detalhes_proposicao or tramitacoes is raised as CamaraAPIError after one GET;
\* autores_por_uri returns an empty sequence instead
C8_FailureSurfacedExceptByUri ==
    RequestFailed =>
        /\ op \in {"detalhes_proposicao", "tramitacoes"}
              => (ret = Raise("CamaraAPIError") /\ http = 1)
        /\ (op = "buscar_proposicoes_por_tema" /\ arg.termo # Str(<<>>))
              => (ret = Raise("CamaraAPIError") /\ http = 1)
        /\ op = "autores_por_uri" => (ret = Return(List(<<>>)) /\ http <= 1)

\* the fallback has issued its GET, met a failure and returned the empty sequence
C8_Witness ==
    /\ RequestFailed
    /\ op = "autores_por_uri"
    /\ http = 1
    /\ ret = Return(List(<<>>))

(***************************************************************************)
(* Properties of utils/transforms.py                                       *)
(***************************************************************************)
DfDone == pc = "done" /\ op = "df_proposicoes"

Registros == arg.registros.l
Rows == ret.val.rows

CanonicalColumns ==
    <<"id", "siglaTipo", "numero", "ano", "rotulo", "ementa", "situacao",
      "tramitacao_atual", "data_status", "link">>

\* a value that is neither null, nor 0, nor the empty string
Usable(v) == v # None /\ v # Num(0) /\ v # Str(<<>>)

Holds(p, k) == k \in DOMAIN p.d

\* the value of the first of the keys that holds a value satisfying Good; when
\* there is none, Fallback
FirstWhere(p, keys, Good(_), Fallback) ==
    LET hits == {i \in 1..Len(keys) : Holds(p, keys[i]) /\ Good(p.d[keys[i]])}
    IN IF hits = {} THEN Fallback
       ELSE p.d[keys[CHOOSE i \in hits : \A j \in hits : i <= j]]

\* the value under the last of the keys, null when the record lacks it
UnderLast(p, keys) == IF Holds(p, keys[Len(keys)]) THEN p.d[keys[Len(keys)]] ELSE None

\* C5: one row per record, in the order of the records (row i carries the
\* identifier of record i), every row and the table having the ten columns; no
\* record gives zero rows and the same ten columns
C5_OneRowPerRecordTenColumns ==
    DfDone =>
        /\ ret.kind = "return"
        /\ ret.val.columns = CanonicalColumns
        /\ Len(Rows) = Len(Registros)
        /\ \A i \in 1..Len(Rows) :
              /\ DOMAIN Rows[i] = {CanonicalColumns[j] : j \in 1..10}
              /\ Rows[i].id = FirstWhere(Registros[i], <<"id", "idProposicao">>, Usable,
                                         UnderLast(Registros[i], <<"id", "idProposicao">>))

\* two records, the first without an identifier, give two rows in that order
C5_Witness ==
    /\ DfDone
    /\ Len(Registros) = 2
    /\ Registros[1] = EmptyDict
    /\ Len(Rows) = 2
    /\ Rows[1].id = None
    /\ Rows[2].id = Num(7)

\* C5, the empty table
C5_WitnessEmpty == DfDone /\ Registros = <<>> /\ Rows = <<>>

FieldsDone == DfDone /\ Len(Registros) = 1 /\ ret.kind = "return" /\ Len(Rows) = 1

NotNull(v) == v # None

\* C9 as stated: each of id, type code, number and year is the value of the first
\* alternate key whose value is not null
C9_FirstNonNullAlternate ==
    FieldsDone =>
        LET p == Registros[1]
            r == Rows[1]
        IN /\ r.id = FirstWhere(p, <<"id", "idProposicao">>, NotNull, None)
           /\ r.siglaTipo = FirstWhere(p, <<"siglaTipo", "sigla_tipo">>, NotNull, None)
           /\ r.numero = FirstWhere(p, <<"numero", "numProposicao", "num">>, NotNull, None)
           /\ r.ano = FirstWhere(p, <<"ano", "anoProposicao">>, NotNull, None)

\* C9 (amended): each of id, type code, number and year is the value of the first
\* alternate key whose value is neither null, nor 0, nor the empty string; when no
\* alternate holds such a value it is the value under the last alternate key, null
\* when the record lacks that key
C9_FirstUsableAlternate ==
    FieldsDone =>
        LET p == Registros[1]
            r == Rows[1]
            Resolved(keys) == FirstWhere(p, keys, Usable, UnderLast(p, keys))
        IN /\ r.id = Resolved(<<"id", "idProposicao">>)
           /\ r.siglaTipo = Resolved(<<"siglaTipo", "sigla_tipo">>)
           /\ r.numero = Resolved(<<"numero", "numProposicao", "num">>)
           /\ r.ano = Resolved(<<"ano", "anoProposicao">>)

\* a 0 under id and an empty type code are replaced by the values of later keys
C9_Witness ==
    /\ FieldsDone
    /\ Holds(Registros[1], "id") /\ Registros[1].d["id"] = Num(0)
    /\ Holds(Registros[1], "siglaTipo") /\ Registros[1].d["siglaTipo"] = Str(<<>>)
    /\ Rows[1].id # Num(0) /\ Rows[1].id # None
    /\ Rows[1].siglaTipo = Str(<<"P","E","C">>)

\* the text of a value inside the label and the link
Shown(v) == IF v.t = "str" THEN v.s ELSE NatToStr(v.n)

LabelOf(r) == Str(Shown(r.siglaTipo) \o <<" ">> \o Shown(r.numero) \o <<"/">> \o Shown(r.ano))

EndsWith(s, suffix) ==
    Len(s) >= Len(suffix) /\ SubSeq(s, Len(s) - Len(suffix) + 1, Len(s)) = suffix

\* the label and the link of a row, a resolved value counting as present when Present
LabelAndLink(r, Present(_)) ==
    /\ (Present(r.siglaTipo) /\ Present(r.numero) /\ Present(r.ano)) => r.rotulo = LabelOf(r)
    /\ ~(Present(r.siglaTipo) /\ Present(r.numero) /\ Present(r.ano)) => r.rotulo = None
    /\ Present(r.id) => r.link = Str(LinkBase \o Shown(r.id))
    /\ ~Present(r.id) => r.link = Str(<<>>)

\* a record holding an id and nothing else: no label, the link of that id, no status
IdOnly(p, r, Present(_)) ==
    (DOMAIN p.d = {"id"} /\ Present(p.d["id"])) =>
        /\ r.rotulo = None
        /\ r.link.s # <<>> /\ EndsWith(r.link.s, Shown(p.d["id"]))
        /\ r.situacao = None /\ r.tramitacao_atual = None /\ r.data_status = None

\* C6 as stated: the label is "{type} {number}/{year}" when the three resolved
\* values are not null and null otherwise, the link the tracking URL of the resolved
\* identifier when it is not null and empty otherwise
C6_LabelAndLinkWhenNotNull ==
    FieldsDone =>
        /\ LabelAndLink(Rows[1], NotNull)
        /\ IdOnly(Registros[1], Rows[1], NotNull)

\* C6 (amended): the same with a resolved value counting as present when it is
\* neither null, nor 0, nor the empty string
C6_LabelAndLinkWhenUsable ==
    FieldsDone =>
        /\ LabelAndLink(Rows[1], Usable)
        /\ IdOnly(Registros[1], Rows[1], Usable)

\* a label and a link built from alternate keys alone, beside a row whose
\* resolved number is 0
C6_Witness ==
    /\ FieldsDone
    /\ ~Holds(Registros[1], "id") /\ ~Holds(Registros[1], "numero")
    /\ ~Holds(Registros[1], "siglaTipo") /\ ~Holds(Registros[1], "ano")
    /\ Rows[1].rotulo # None
    /\ Rows[1].link # Str(<<>>)

\* a record holding only an id
C6_WitnessIdOnly ==
    /\ FieldsDone
    /\ DOMAIN Registros[1].d = {"id"}
    /\ Rows[1].link # Str(<<>>)

(***************************************************************************)
(* C7                                                                      *)
(***************************************************************************)
AutorDone == pc = "done" /\ op = "extrair_autor_principal"

Autores == IF arg.autores_payload.t = "list" THEN arg.autores_payload.l ELSE <<>>

\* the type of an entry names a deputy, whatever the case
NamesDeputy(a) ==
    /\ Holds(a, "tipo")
    /\ a.d["tipo"].t = "str"
    /\ Contains(Deputado, Lower(a.d["tipo"].s))

\* the index of the selected entry: the first deputy, else the first entry
Selected ==
    LET deputies == {i \in 1..Len(Autores) : NamesDeputy(Autores[i])}
    IN IF deputies = {} THEN 1 ELSE CHOOSE i \in deputies : \A j \in deputies : i <= j

NameKeys == <<"nome", "nomeAutor", "nomeAutorPrimeiroSignatario">>

\* C7 as stated: null for no author; else the first non-null of nome, nomeAutor,
\* nomeAutorPrimeiroSignatario of the selected entry
C7_FirstNonNullNameOfSelected ==
    AutorDone =>
        /\ ret.kind = "return"
        /\ Autores = <<>> => ret.val = None
        /\ Autores # <<>> => ret.val = FirstWhere(Autores[Selected], NameKeys, NotNull, None)

\* C7 (amended): null for no author; else the first of nome, nomeAutor,
\* nomeAutorPrimeiroSignatario of the selected entry that is neither null nor
\* empty, and when there is none the value under nomeAutorPrimeiroSignatario,
\* null when the entry lacks it
C7_FirstUsableNameOfSelected ==
    AutorDone =>
        /\ ret.kind = "return"
        /\ Autores = <<>> => ret.val = None
        /\ Autores # <<>> =>
              ret.val = FirstWhere(Autores[Selected], NameKeys, Usable,
                                   UnderLast(Autores[Selected], NameKeys))

\* the second entry is the deputy: its name is returned, not the first entry's
C7_Witness ==
    /\ AutorDone
    /\ Len(Autores) = 2
    /\ Selected = 2
    /\ Holds(Autores[1], "nome") /\ Autores[1].d["nome"] = Str(<<"X">>)
    /\ Holds(Autores[2], "nome") /\ Autores[2].d["nome"] = Str(<<>>)
    /\ ret.val = Str(<<"Y">>)

(***************************************************************************)
(* C10                                                                     *)
(***************************************************************************)
DiasDone == pc = "done" /\ op = "dias_desde"

\* the days from a calendar date to today
DaysTo(date) == Ordinal(today) - Ordinal(date)

\* a text naming a calendar date as YYYY-MM-DD
NamesDate(s) == \E date \in ValidDates : s = DateText(date)

DateNamed(s) == CHOOSE date \in ValidDates : s = DateText(date)

\* C10: dias_desde never raises; it returns null for a null, empty or unparseable
\* input and the days from the input's date to today for a Timestamp, a datetime,
\* a date or a parseable text
C10_DaysSinceNeverRaises ==
    DiasDone =>
        LET dt == arg.dt
        IN /\ ret.kind = "return"
           /\ dt.t \in {"none", "nat"} => ret.val = None
           /\ (dt.t = "str" /\ ~NamesDate(dt.s)) => ret.val = None
           /\ dt.t \in {"timestamp", "datetime", "date"} => ret.val = Num(DaysTo(dt.date))
           /\ (dt.t = "str" /\ NamesDate(dt.s)) => ret.val = Num(DaysTo(DateNamed(dt.s)))

====
